---- MODULE Spec2Model ----
(***************************************************************************)
(* Model of the currentRefinedValues connector                             *)
(* (src/connectors/current-refined-values/connectCurrentRefinedValues.js). *)
(*                                                                         *)
(* Strings that the code compares with < or concatenates (name, operator,  *)
(* computedLabel) are sequences of UTF-16 code units.  Strings that are    *)
(* only tested for equality (type, attributeName, query) are TLA+ strings. *)
(* Arrays are sequences; JavaScript indices are 0-based, so indexOf        *)
(* returns position - 1 and -1 when the value is absent.                   *)
(***************************************************************************)
EXTENDS Integers, Sequences, FiniteSets

VARIABLES
  attributeNames,        \* map(attributes, attribute => attribute.name)
  onlyListedAttributes,  \* widgetParams.onlyListedAttributes
  clearsQuery,           \* widgetParams.clearsQuery
  phase,                 \* "constructed" until init() has run, then "started"
  helperState,           \* helper.state
  rendering,             \* what renderFn last received
  stale,                 \* a search was started and its render has not happened
  last                   \* the last handler that ran and how it ended

vars == <<attributeNames, onlyListedAttributes, clearsQuery, phase,
          helperState, rendering, stale, last>>

(***************************************************************************)
(* Bounds of the model.                                                    *)
(***************************************************************************)
MaxRefinements == 2     \* active refinements in the initial helper state

(***************************************************************************)
(* Strings as code units.                                                  *)
(***************************************************************************)
Digit(d) == 48 + d

RECURSIVE ToString(_)
\* `${value}` for a non-negative integer
ToString(n) == IF n < 10 THEN <<Digit(n)>>
               ELSE Append(ToString(n \div 10), Digit(n % 10))

RECURSIVE StrLess(_, _)
\* a < b on strings: code unit by code unit, a proper prefix is smaller
StrLess(a, b) ==
  IF b = <<>> THEN FALSE
  ELSE IF a = <<>> THEN TRUE
  ELSE IF Head(a) # Head(b) THEN Head(a) < Head(b)
  ELSE StrLess(Tail(a), Tail(b))

GE == <<62, 61>>        \* ">="
LE == <<60, 61>>        \* "<="
EQ == <<61>>            \* "="
GT == <<62>>            \* ">"
LT == <<60>>            \* "<"
NE == <<33, 61>>        \* "!="
GeSymbol == <<8805>>    \* "≥"
LeSymbol == <<8804>>    \* "≤"
Space == <<32>>         \* " "

red == <<114, 101, 100>>
blue == <<98, 108, 117, 101>>
sale == <<115, 97, 108, 101>>
shoes == <<115, 104, 111, 101, 115>>
boots == <<98, 111, 111, 116, 115>>

(***************************************************************************)
(* Array helpers.                                                          *)
(***************************************************************************)
\* Array.prototype.indexOf on an array whose elements have the type of x
indexOf(arr, x) ==
  IF \E i \in 1..Len(arr) : arr[i] = x
  THEN (CHOOSE i \in 1..Len(arr) : arr[i] = x /\ \A j \in 1..(i - 1) : arr[j] # x) - 1
  ELSE -1

Range(s) == {s[i] : i \in 1..Len(s)}

\* the rearrangements of arr
Rearrangements(arr) ==
  {[i \in 1..Len(arr) |-> arr[b[i]]] :
     b \in {c \in [1..Len(arr) -> 1..Len(arr)] :
              \A i, j \in 1..Len(arr) : i # j => c[i] # c[j]}}

isEmpty(arr) == Len(arr) = 0

(***************************************************************************)
(* JavaScript values of mixed type, for the one place where the code       *)
(* compares across types with ===.                                         *)
(***************************************************************************)
jsString(s) == [t |-> "string", s |-> s]
jsNumber(n) == [t |-> "number", n |-> n]
jsBoolean(b) == [t |-> "boolean", b |-> b]

\* x === y
strictEquals(x, y) ==
  /\ x.t = y.t
  /\ CASE x.t = "string" -> x.s = y.s
       [] x.t = "number" -> x.n = y.n
       [] x.t = "boolean" -> x.b = y.b

\* arr.indexOf(x) where arr holds strings and x is any JavaScript value
indexOfValue(arr, x) ==
  IF \E i \in 1..Len(arr) : strictEquals(jsString(arr[i]), x)
  THEN (CHOOSE i \in 1..Len(arr) :
          /\ strictEquals(jsString(arr[i]), x)
          /\ \A j \in 1..(i - 1) : ~strictEquals(jsString(arr[j]), x)) - 1
  ELSE -1

\* ToBoolean of a number
truthy(n) == n # 0

(***************************************************************************)
(* The host's query state and the raw refinements read from it.            *)
(* A state is the list of its active refinements, in the order in which    *)
(* getRefinements enumerates them, and the free-text query.                *)
(***************************************************************************)
TagAttribute == "_tags"

Facet(a, n) == [type |-> "facet", attributeName |-> a, name |-> n]
Disjunctive(a, n) == [type |-> "disjunctive", attributeName |-> a, name |-> n]
Exclude(a, n) == [type |-> "exclude", attributeName |-> a, name |-> n]
Hierarchical(a, n) == [type |-> "hierarchical", attributeName |-> a, name |-> n]
Numeric(a, op, v) ==
  [type |-> "numeric", attributeName |-> a, name |-> ToString(v),
   numericValue |-> v, operator |-> op]
Tag(n) == [type |-> "tag", attributeName |-> TagAttribute, name |-> n]

SearchParameters(refs, q) == [refinements |-> refs, query |-> q]

\* getRefinements(results, state): one entry per active refinement
getRefinements(state) == state.refinements

removeFacetRefinement(state, attr, value) ==
  [state EXCEPT !.refinements =
     SelectSeq(@, LAMBDA r : ~(r.type = "facet" /\ r.attributeName = attr /\ r.name = value))]

removeDisjunctiveFacetRefinement(state, attr, value) ==
  [state EXCEPT !.refinements =
     SelectSeq(@, LAMBDA r : ~(r.type = "disjunctive" /\ r.attributeName = attr /\ r.name = value))]

removeExcludeRefinement(state, attr, value) ==
  [state EXCEPT !.refinements =
     SelectSeq(@, LAMBDA r : ~(r.type = "exclude" /\ r.attributeName = attr /\ r.name = value))]

removeNumericRefinement(state, attr, operator, value) ==
  [state EXCEPT !.refinements =
     SelectSeq(@, LAMBDA r : ~(/\ r.type = "numeric"
                               /\ r.attributeName = attr
                               /\ r.operator = operator
                               /\ r.numericValue = value))]

removeTagRefinement(state, value) ==
  [state EXCEPT !.refinements =
     SelectSeq(@, LAMBDA r : ~(r.type = "tag" /\ r.name = value))]

\* state.clearRefinements(attr): every refinement of the attribute, whatever its kind
clearRefinements(state, attr) ==
  [state EXCEPT !.refinements = SelectSeq(@, LAMBDA r : r.attributeName # attr)]

\* the query-reset operation
setQuery(state, q) == [state EXCEPT !.query = q]

RECURSIVE clearEach(_, _, _)
\* the refinements of restricted[i], restricted[i + 1], ... cleared one attribute at a time
clearEach(state, restricted, i) ==
  IF i > Len(restricted) THEN state
  ELSE clearEach(clearRefinements(state, restricted[i]), restricted, i + 1)

\* clearRefinementsFromState(state, attributeNames, clearsQuery), the clear-all
clearRefinementsFromState(inputState, restricted, alsoClearQuery) ==
  LET state == IF alsoClearQuery THEN setQuery(inputState, "") ELSE inputState
  IN  IF isEmpty(restricted)
      THEN [state EXCEPT !.refinements = <<>>]
      ELSE clearEach(state, restricted, 1)

(***************************************************************************)
(* connectCurrentRefinedValues.js: the pure functions.                     *)
(***************************************************************************)
\* mutant: the offset attributeNames.length is forgotten for an unlisted attribute
getRestrictedIndexForSort_NoOffset(attrNames, otherAttributeNames, attributeName) ==
  LET idx == indexOf(attrNames, attributeName)
  IN  IF idx # -1 THEN idx
      ELSE indexOf(otherAttributeNames, attributeName)

\* mutant: every unlisted attribute gets the same priority
getRestrictedIndexForSort_EqualPriority(attrNames, otherAttributeNames, attributeName) ==
  LET idx == indexOf(attrNames, attributeName)
  IN  IF idx # -1 THEN idx
      ELSE Len(attrNames)

getRestrictedIndexForSort(attrNames, otherAttributeNames, attributeName) ==
  LET idx == indexOf(attrNames, attributeName)
  IN  IF idx # -1 THEN idx
      ELSE Len(attrNames) + indexOf(otherAttributeNames, attributeName)

compareRefinements(attrNames, otherAttributeNames, a, b) ==
  LET idxa == getRestrictedIndexForSort(attrNames, otherAttributeNames, a.attributeName)
      idxb == getRestrictedIndexForSort(attrNames, otherAttributeNames, b.attributeName)
  IN  IF idxa = idxb
      THEN IF a.name = b.name THEN 0
           ELSE IF StrLess(a.name, b.name) THEN -1 ELSE 1
      ELSE IF idxa < idxb THEN -1 ELSE 1

\* the iteratee of the reduce in getFilteredRefinements; its second test is
\* res.indexOf(refinement.attributeName === -1), used as a condition
pushOther(attrNames, res, refinement) ==
  IF /\ indexOf(attrNames, refinement.attributeName) = -1
     /\ truthy(indexOfValue(res,
          jsBoolean(strictEquals(jsString(refinement.attributeName), jsNumber(-1)))))
  THEN Append(res, refinement.attributeName)
  ELSE res

RECURSIVE reduceOthers(_, _, _, _)
\* reduce(refinements, iteratee, res) from element i on, left to right
reduceOthers(refinements, attrNames, res, i) ==
  IF i > Len(refinements) THEN res
  ELSE reduceOthers(refinements, attrNames, pushOther(attrNames, res, refinements[i]), i + 1)

\* otherAttributeNames of getFilteredRefinements
otherAttributeNamesOf(refinements, attrNames) == reduceOthers(refinements, attrNames, <<>>, 1)

\* refinements.sort(compareRefinements.bind(null, attributeNames, otherAttributeNames)):
\* some rearrangement in which no later element compares below an earlier one;
\* which one among elements that compare equal is the engine's choice
sortRefinements(refinements, attrNames, otherAttributeNames) ==
  {p \in Rearrangements(refinements) :
     \A i, j \in 1..Len(refinements) :
       i < j => compareRefinements(attrNames, otherAttributeNames, p[i], p[j]) <= 0}

\* mutant: the substitution of <= is forgotten
computeLabel_NoLeSymbol(value) ==
  LET displayedOperator ==
        IF value.operator = GE THEN GeSymbol
        ELSE value.operator
      computedLabel ==
        IF "operator" \in DOMAIN value
        THEN displayedOperator \o Space \o value.name
        ELSE value.name
  IN  [k \in DOMAIN value \cup {"computedLabel"} |->
         IF k = "computedLabel" THEN computedLabel ELSE value[k]]

computeLabel(value) ==
  LET displayedOperator ==
        IF value.operator = GE THEN GeSymbol
        ELSE IF value.operator = LE THEN LeSymbol
        ELSE value.operator
      computedLabel ==
        IF "operator" \in DOMAIN value
        THEN displayedOperator \o Space \o value.name
        ELSE value.name
  IN  [k \in DOMAIN value \cup {"computedLabel"} |->
         IF k = "computedLabel" THEN computedLabel ELSE value[k]]

\* mutant: an empty allow-list filters too
filtersUnlisted_EmptyListToo(attrNames, onlyListed) == onlyListed

\* the condition of the filter: onlyListedAttributes && !isEmpty(attributeNames)
filtersUnlisted(attrNames, onlyListed) == onlyListed /\ ~isEmpty(attrNames)

\* the lists getFilteredRefinements may return: one per outcome of the sort
getFilteredRefinements(state, attrNames, onlyListed) ==
  LET refinements == getRefinements(state)
      otherAttributeNames == otherAttributeNamesOf(refinements, attrNames)
      sorted == sortRefinements(refinements, attrNames, otherAttributeNames)
      filtered(s) == IF filtersUnlisted(attrNames, onlyListed)
                     THEN SelectSeq(s, LAMBDA refinement :
                                         indexOf(attrNames, refinement.attributeName) # -1)
                     ELSE s
  IN  {[i \in 1..Len(filtered(s)) |-> computeLabel(filtered(s)[i])] : s \in sorted}

HandledTypes == {"facet", "disjunctive", "hierarchical", "exclude", "numeric", "tag"}

Returned(state) == [threw |-> FALSE, state |-> state]
Thrown == [threw |-> TRUE]

\* mutant: the exclude case calls the facet remover
clearRefinementFromState_ExcludeAsFacet(state, refinement) ==
  CASE refinement.type = "facet" ->
         Returned(removeFacetRefinement(state, refinement.attributeName, refinement.name))
    [] refinement.type = "disjunctive" ->
         Returned(removeDisjunctiveFacetRefinement(state, refinement.attributeName,
                                                   refinement.name))
    [] refinement.type = "hierarchical" ->
         Returned(clearRefinements(state, refinement.attributeName))
    [] refinement.type = "exclude" ->
         Returned(removeFacetRefinement(state, refinement.attributeName, refinement.name))
    [] refinement.type = "numeric" ->
         Returned(removeNumericRefinement(state, refinement.attributeName,
                                          refinement.operator, refinement.numericValue))
    [] refinement.type = "tag" ->
         Returned(removeTagRefinement(state, refinement.name))
    [] OTHER -> Thrown

\* mutant: the default case returns the state instead of throwing
clearRefinementFromState_NoThrow(state, refinement) ==
  CASE refinement.type = "facet" ->
         Returned(removeFacetRefinement(state, refinement.attributeName, refinement.name))
    [] refinement.type = "disjunctive" ->
         Returned(removeDisjunctiveFacetRefinement(state, refinement.attributeName,
                                                   refinement.name))
    [] refinement.type = "hierarchical" ->
         Returned(clearRefinements(state, refinement.attributeName))
    [] refinement.type = "exclude" ->
         Returned(removeExcludeRefinement(state, refinement.attributeName, refinement.name))
    [] refinement.type = "numeric" ->
         Returned(removeNumericRefinement(state, refinement.attributeName,
                                          refinement.operator, refinement.numericValue))
    [] refinement.type = "tag" ->
         Returned(removeTagRefinement(state, refinement.name))
    [] OTHER -> Returned(state)

clearRefinementFromState(state, refinement) ==
  CASE refinement.type = "facet" ->
         Returned(removeFacetRefinement(state, refinement.attributeName, refinement.name))
    [] refinement.type = "disjunctive" ->
         Returned(removeDisjunctiveFacetRefinement(state, refinement.attributeName,
                                                   refinement.name))
    [] refinement.type = "hierarchical" ->
         Returned(clearRefinements(state, refinement.attributeName))
    [] refinement.type = "exclude" ->
         Returned(removeExcludeRefinement(state, refinement.attributeName, refinement.name))
    [] refinement.type = "numeric" ->
         Returned(removeNumericRefinement(state, refinement.attributeName,
                                          refinement.operator, refinement.numericValue))
    [] refinement.type = "tag" ->
         Returned(removeTagRefinement(state, refinement.name))
    [] OTHER -> Thrown

clearRefinement(helper, refinement) ==
  LET cleared == clearRefinementFromState(helper, refinement)
  IN  IF cleared.threw
      THEN [threw |-> TRUE, state |-> helper, searched |-> FALSE]
      ELSE [threw |-> FALSE, state |-> cleared.state, searched |-> TRUE]

\* clearRefinementsAndSearch(helper, attributeNames, clearsQuery)
clearRefinementsAndSearch(helper, restricted, alsoClearQuery) ==
  [threw |-> FALSE,
   state |-> clearRefinementsFromState(helper, restricted, alsoClearQuery),
   searched |-> TRUE]

(***************************************************************************)
(* The widget.                                                             *)
(***************************************************************************)
\* mutant: the restriction applies whatever the flag
restrictedTo_WhateverFlag == attributeNames

\* mutant: the restriction is never applied
restrictedTo_Never == <<>>

restrictedTo == IF onlyListedAttributes THEN attributeNames ELSE <<>>

\* the attribute lists a page declares
AttributeLists ==
  {<<>>, <<"color">>, <<"price", "color">>, <<"brand", "category">>}

\* the refinements a search state may hold
Universe ==
  {Facet("color", red), Facet("color", blue), Exclude("color", red),
   Hierarchical("category", shoes), Disjunctive("category", boots),
   Numeric("price", GE, 10), Numeric("price", LE, 5), Tag(sale)}

\* a state refined by numbers under every operator the host supports
OperatorUniverse ==
  {Facet("color", red), Numeric("price", GE, 10), Numeric("price", LE, 5),
   Numeric("price", EQ, 3), Numeric("price", GT, 10), Numeric("price", LT, 5),
   Numeric("price", NE, 3)}

\* a record a renderer may hand to refine that no extraction produced
Foreign ==
  {[type |-> "range", attributeName |-> "price", name |-> ToString(10)]}

Queries == {"phone"}

StatesOver(universe) ==
  {SearchParameters(refs, q) :
     refs \in {r \in UNION {[1..n -> universe] : n \in 0..MaxRefinements} :
                 \A i, j \in 1..Len(r) : i # j => r[i] # r[j]},
     q \in Queries}

NoRendering == [isFirstRendering |-> TRUE, refinements |-> <<>>, clearAllURL |-> <<>>]
NoCall == [op |-> "none"]

InitOver(universe) ==
  /\ attributeNames \in AttributeLists
  /\ onlyListedAttributes \in BOOLEAN
  /\ clearsQuery \in BOOLEAN
  /\ phase = "constructed"
  /\ helperState \in StatesOver(universe)
  /\ rendering = NoRendering
  /\ stale = FALSE
  /\ last = NoCall

Init == InitOver(Universe)

\* what init and render hand to renderFn
renderOptions(state, isFirstRendering) ==
  {[isFirstRendering |-> isFirstRendering,
    refinements |-> refinements,
    clearAllURL |-> clearRefinementsFromState(state, restrictedTo, clearsQuery)] :
     refinements \in getFilteredRefinements(state, attributeNames, onlyListedAttributes)}

init ==
  /\ phase = "constructed"
  /\ phase' = "started"
  /\ rendering' \in renderOptions(helperState, TRUE)
  /\ UNCHANGED <<attributeNames, onlyListedAttributes, clearsQuery, helperState, stale, last>>

render ==
  /\ phase = "started"
  /\ rendering' \in renderOptions(helperState, FALSE)
  /\ stale' = FALSE
  /\ UNCHANGED <<attributeNames, onlyListedAttributes, clearsQuery, phase, helperState, last>>

\* the records the renderer can pass back
Clickable == Range(rendering.refinements) \cup Foreign

\* renderOptions.refine(refinement)
refine(refinement) ==
  /\ phase = "started"
  /\ LET done == clearRefinement(helperState, refinement)
     IN  /\ helperState' = done.state
         /\ stale' = (stale \/ done.searched)
         /\ last' = [op |-> "refine", refinement |-> refinement, before |-> helperState,
                     threw |-> done.threw, searched |-> done.searched]
  /\ UNCHANGED <<attributeNames, onlyListedAttributes, clearsQuery, phase, rendering>>

\* renderOptions.clearAllClick()
clearAllClick ==
  /\ phase = "started"
  /\ LET done == clearRefinementsAndSearch(helperState, restrictedTo, clearsQuery)
     IN  /\ helperState' = done.state
         /\ stale' = (stale \/ done.searched)
         /\ last' = [op |-> "clearAll", before |-> helperState,
                     threw |-> done.threw, searched |-> done.searched]
  /\ UNCHANGED <<attributeNames, onlyListedAttributes, clearsQuery, phase, rendering>>

Next ==
  \/ init
  \/ render
  \/ \E refinement \in Clickable : refine(refinement)
  \/ clearAllClick

Spec == Init /\ [][Next]_vars

InitOperators == InitOver(OperatorUniverse)

SpecOperators == InitOperators /\ [][Next]_vars

(***************************************************************************)
(* Vocabulary of the properties.                                           *)
(***************************************************************************)
\* renderFn has been given the extraction of the current helper state
Rendered == phase = "started" /\ ~stale

Declared(attributeName) == \E k \in 1..Len(attributeNames) : attributeNames[k] = attributeName

\* the least member of a non-empty set of numbers
Least(S) == CHOOSE k \in S : \A m \in S : k <= m

\* place of an attribute in the declared list (of its first mention)
DeclaredPlace(attributeName) ==
  Least({k \in 1..Len(attributeNames) : attributeNames[k] = attributeName})

\* place of the first raw refinement of an attribute
FirstSeen(raw, attributeName) ==
  Least({k \in 1..Len(raw) : raw[k].attributeName = attributeName})

StrLessOrEqual(a, b) == a = b \/ StrLess(a, b)

\* a record as it was before labelling
Unlabelled(record) == [k \in DOMAIN record \ {"computedLabel"} |-> record[k]]

\* the records that some extraction of the state contains, under the widget's parameters
Extracted(state) ==
  UNION {Range(out) : out \in getFilteredRefinements(state, attributeNames, onlyListedAttributes)}

\* the records of the state, extracted without the only-listed filter
ExtractedUnfiltered(state) ==
  UNION {Range(out) : out \in getFilteredRefinements(state, attributeNames, FALSE)}

NoDuplicates(seq) == \A i, j \in 1..Len(seq) : i # j => seq[i] # seq[j]

(***************************************************************************)
(* C1.  The output of getFilteredRefinements is sorted by the Ordering     *)
(* Key: records of declared attributes come before records of undeclared   *)
(* ones, declared records follow the declared list, undeclared attributes  *)
(* follow the order in which the raw list first shows them, and records of *)
(* one attribute are in ascending lexicographic order of name.             *)
(***************************************************************************)
C1_SortedByOrderingKey ==
  Rendered =>
    LET out == rendering.refinements
        raw == getRefinements(helperState)
    IN  \A i, j \in 1..Len(out) :
          i < j =>
            LET a == out[i].attributeName
                b == out[j].attributeName
            IN  /\ Declared(b) => Declared(a)
                /\ Declared(a) /\ Declared(b) => DeclaredPlace(a) <= DeclaredPlace(b)
                /\ ~Declared(a) /\ ~Declared(b) => FirstSeen(raw, a) <= FirstSeen(raw, b)
                /\ a = b => StrLessOrEqual(out[i].name, out[j].name)

\* the sort moved a declared record in front of an undeclared one that the raw list had first
C1_Witness ==
  /\ Rendered
  /\ Len(rendering.refinements) = 2
  /\ Declared(rendering.refinements[1].attributeName)
  /\ ~Declared(rendering.refinements[2].attributeName)
  /\ ~Declared(getRefinements(helperState)[1].attributeName)

(***************************************************************************)
(* C2.  The extraction keeps exactly the raw refinements of declared       *)
(* attributes when onlyListedAttributes is true and attributeNames is not  *)
(* empty; in every other case it returns every raw refinement, dropping    *)
(* none and adding none.                                                   *)
(***************************************************************************)
C2_FilterKeepsExactly ==
  Rendered =>
    LET out == rendering.refinements
        raw == Range(getRefinements(helperState))
        kept == IF onlyListedAttributes /\ attributeNames # <<>>
                THEN {r \in raw : Declared(r.attributeName)}
                ELSE raw
    IN  /\ {Unlabelled(out[i]) : i \in 1..Len(out)} = kept
        /\ Len(out) = Cardinality(kept)

\* an empty allow-list with the flag set: both raw refinements are returned
C2_Witness ==
  /\ Rendered
  /\ onlyListedAttributes
  /\ attributeNames = <<>>
  /\ Len(getRefinements(helperState)) = 2
  /\ Len(rendering.refinements) = 2

(***************************************************************************)
(* C3.  A record that an extraction of S contains is in no extraction of   *)
(* the state that clearing it from S yields, and clearing it raises no     *)
(* error.                                                                  *)
(***************************************************************************)
C3_ClearedRecordAbsent ==
  (last.op = "refine" /\ last.refinement \in Extracted(last.before)) =>
    /\ ~last.threw
    /\ last.refinement \notin Extracted(helperState)

\* an excluded value was cleared while the same value stays refined as a facet
C3_Witness ==
  /\ last.op = "refine"
  /\ last.refinement \in Extracted(last.before)
  /\ last.refinement.type = "exclude"
  /\ \E r \in Extracted(helperState) :
       r.attributeName = last.refinement.attributeName /\ r.name = last.refinement.name

(***************************************************************************)
(* C4.  Clear-all with an empty restriction and clearsQuery false: the     *)
(* state it yields (the one clearAllURL is built from, and the one         *)
(* clearAllClick installs) extracts to the empty list.                     *)
(***************************************************************************)
C4_ClearAllLeavesNothing ==
  ((~onlyListedAttributes \/ attributeNames = <<>>) /\ ~clearsQuery) =>
    /\ phase = "started" =>
         getFilteredRefinements(rendering.clearAllURL, attributeNames, FALSE) = {<<>>}
    /\ last.op = "clearAll" =>
         getFilteredRefinements(helperState, attributeNames, FALSE) = {<<>>}

\* attributes are declared, the flag is off, and a tag and another refinement were cleared
C4_Witness ==
  /\ last.op = "clearAll"
  /\ ~onlyListedAttributes
  /\ attributeNames # <<>>
  /\ ~clearsQuery
  /\ Len(last.before.refinements) = 2
  /\ \E r \in Range(last.before.refinements) : r.type = "tag"

(***************************************************************************)
(* C5.  Clear-all restricted to the declared attributes removes the        *)
(* refinements of those attributes and no other: every refinement of an    *)
(* attribute outside the list is still extracted from the resulting state, *)
(* and the query is unchanged when clearsQuery is false.                   *)
(***************************************************************************)
C5_RestrictedClearAllFrame ==
  (last.op = "clearAll" /\ onlyListedAttributes /\ attributeNames # <<>>) =>
    /\ ExtractedUnfiltered(helperState) =
         {r \in ExtractedUnfiltered(last.before) : ~Declared(r.attributeName)}
    /\ ~clearsQuery => helperState.query = last.before.query

\* one refinement was removed and one of another attribute stayed
C5_Witness ==
  /\ last.op = "clearAll"
  /\ onlyListedAttributes
  /\ attributeNames # <<>>
  /\ ~clearsQuery
  /\ Len(last.before.refinements) = 2
  /\ Len(helperState.refinements) = 1

(***************************************************************************)
(* C6.  Clearing a refinement whose type is none of facet, disjunctive,    *)
(* hierarchical, exclude, numeric, tag raises an error; through refine the *)
(* helper's state stays as it was and no search is started.                *)
(***************************************************************************)
C6_UnknownTypeThrows ==
  (last.op = "refine" /\ last.refinement.type \notin HandledTypes) =>
    /\ clearRefinementFromState(last.before, last.refinement).threw
    /\ last.threw
    /\ ~last.searched
    /\ helperState = last.before

\* a record of an unhandled type was passed to refine while refinements were active
C6_Witness ==
  /\ last.op = "refine"
  /\ last.refinement.type \notin HandledTypes
  /\ Len(helperState.refinements) = 2

(***************************************************************************)
(* C7.  Every extracted record has a computedLabel: its name when it has   *)
(* no operator, the name after the sign and a space when the operator is   *)
(* >= or <=, and the name after the operator as written and a space for    *)
(* every other operator.                                                   *)
(***************************************************************************)
C7_ComputedLabel ==
  phase = "started" =>
    \A i \in 1..Len(rendering.refinements) :
      LET r == rendering.refinements[i]
      IN  /\ "computedLabel" \in DOMAIN r
          /\ "operator" \notin DOMAIN r => r.computedLabel = r.name
          /\ "operator" \in DOMAIN r =>
               /\ r.operator = <<62, 61>> => r.computedLabel = <<8805, 32>> \o r.name
               /\ r.operator = <<60, 61>> => r.computedLabel = <<8804, 32>> \o r.name
               /\ r.operator \notin {<<62, 61>>, <<60, 61>>} =>
                    r.computedLabel = r.operator \o <<32>> \o r.name

\* "<= 5" labelled with the sign beside "!= 3" labelled as written
C7_Witness ==
  /\ phase = "started"
  /\ \E i, j \in 1..Len(rendering.refinements) :
       /\ rendering.refinements[i].computedLabel = <<8804, 32, 53>>
       /\ rendering.refinements[j].computedLabel = <<33, 61, 32, 51>>

(***************************************************************************)
(* C8 as stated.  With no declared attributes the extracted records are in *)
(* ascending lexicographic order of name, whatever their attributeName.    *)
(***************************************************************************)
C8_PurelyLexicographic ==
  (Rendered /\ attributeNames = <<>>) =>
    \A i, j \in 1..Len(rendering.refinements) :
      i < j => StrLessOrEqual(rendering.refinements[i].name, rendering.refinements[j].name)

(***************************************************************************)
(* C8 as amended.  With no declared attributes the extracted records are   *)
(* grouped by attributeName, the groups in the order in which the raw list *)
(* first shows each attribute, and each group in ascending lexicographic   *)
(* order of name.                                                          *)
(***************************************************************************)
C8_FirstSeenThenName ==
  (Rendered /\ attributeNames = <<>>) =>
    LET out == rendering.refinements
        raw == getRefinements(helperState)
    IN  \A i, j \in 1..Len(out) :
          i < j =>
            \/ FirstSeen(raw, out[i].attributeName) < FirstSeen(raw, out[j].attributeName)
            \/ /\ out[i].attributeName = out[j].attributeName
               /\ StrLessOrEqual(out[i].name, out[j].name)

\* two attributes, the one seen first holding the greater name
C8_Witness ==
  /\ Rendered
  /\ attributeNames = <<>>
  /\ Len(rendering.refinements) = 2
  /\ rendering.refinements[1].attributeName # rendering.refinements[2].attributeName
  /\ StrLess(rendering.refinements[2].name, rendering.refinements[1].name)

(***************************************************************************)
(* C9.  otherAttributeNames, the tail of the sort's priority list, holds   *)
(* each attribute name that is absent from attributeNames once, at the     *)
(* place of its first occurrence in the raw list.                          *)
(***************************************************************************)
C9_OtherAttributeNamesOnce ==
  phase = "started" =>
    LET raw == getRefinements(helperState)
        other == otherAttributeNamesOf(raw, attributeNames)
    IN  /\ NoDuplicates(other)
        /\ Range(other) = {raw[i].attributeName : i \in 1..Len(raw)} \ Range(attributeNames)
        /\ \A i, j \in 1..Len(other) :
             i < j => FirstSeen(raw, other[i]) < FirstSeen(raw, other[j])

(***************************************************************************)
(* C10.  Clearing one extracted refinement R removes only R:               *)
(* every other extracted refinement, of any kind and also on R's           *)
(* attribute, is still extracted afterwards, and the query is unchanged.   *)
(***************************************************************************)
C10_ClearOneRemovesOnlyThat ==
  (last.op = "refine" /\ last.refinement \in Extracted(last.before)) =>
    /\ Extracted(last.before) \ {last.refinement} \subseteq Extracted(helperState)
    /\ helperState.query = last.before.query

(***************************************************************************)
(* What the code does guarantee about the frame of a single clear: the     *)
(* query and every other extracted refinement stay, except that clearing a *)
(* hierarchical R also removes the other refinements of R's attribute.     *)
(***************************************************************************)
ClearOneFrame ==
  (last.op = "refine" /\ last.refinement \in Extracted(last.before)) =>
    LET R == last.refinement
    IN  /\ \A r \in Extracted(last.before) \ {R} :
             (R.type # "hierarchical" \/ r.attributeName # R.attributeName)
               => r \in Extracted(helperState)
        /\ R.type = "hierarchical" =>
             \A r \in Extracted(helperState) : r.attributeName # R.attributeName
        /\ helperState.query = last.before.query

\* a facet value was cleared and the other value of the same attribute stayed
ClearOneFrame_Witness ==
  /\ last.op = "refine"
  /\ last.refinement \in Extracted(last.before)
  /\ last.refinement.type = "facet"
  /\ \E r \in Extracted(helperState) :
       r.type = "facet" /\ r.attributeName = last.refinement.attributeName

====
